---------------------------- MODULE Spec2Model ----------------------------
(***************************************************************************)
(* State-machine model of the callsofia scraper: the Scraper class (range  *)
(* planning, batched and concurrency-limited item pipelines), the retry    *)
(* wrapper of CallSofiaClient and the progress / record / error tables of  *)
(* SignalDatabase.                                                         *)
(*                                                                         *)
(* One process (one invocation of the CLI) is a "run".  The database file  *)
(* outlives the process, so signals, progress and errorLog persist from    *)
(* one run to the next while everything else is rebuilt by StartRun.       *)
(***************************************************************************)
EXTENDS Integers, Sequences, FiniteSets, TLC

(***************************************************************************)
(* Bounds of the model.                                                    *)
(***************************************************************************)
MaxId == 3            \* signal ids are 1..MaxId
MaxConcurrency == 2   \* --concurrency is drawn from 1..MaxConcurrency
MaxBatchSize == 2     \* --batch-size is drawn from 1..MaxBatchSize
MaxRuns == 2          \* number of processes started on the same database
MaxDoc == 1           \* distinct documents the remote system may serve
MaxAttempts == 5      \* withRetry is called with 1..MaxAttempts attempts
MaxBaseDelay == 3     \* retryDelayMs is drawn from 1..MaxBaseDelay
MaxRowId == 2         \* upsertSignal is studied on the ids 1..MaxRowId
MaxUpserts == 3       \* upserts in one history of the table
MaxClock == 1         \* datetime('now') takes the values 0..MaxClock
MaxExtrasRuns == 1    \* runs with --fetch-extras on one database
MaxCatId == 2         \* categories and subcategories have the ids 1..MaxCatId
MaxName == 2          \* names are 1..MaxName
MaxParentId == 40     \* subcategory ids are built on the parents 1..MaxParentId
MaxSubNumber == 271   \* and on the subcategory numbers 0..MaxSubNumber
MaxRows == 2          \* .row elements in a document given to extractRowValue
MaxToken == 2         \* characters of a number token in a location text
MaxParseId == 2       \* parse is called with the ids 1..MaxParseId
MaxHistSignal == 2    \* status history and clerk answers are kept of the signals 1..MaxHistSignal
MaxEntries == 2       \* entries in one fetched list
MaxHistCalls == 3     \* calls in one history of the two tables

(***************************************************************************)
(* Program constants.                                                      *)
(***************************************************************************)
RetryAttempts == 3    \* DEFAULT_CONFIG.retryAttempts

Ids == 1..MaxId
Docs == 1..MaxDoc
NoRow == 0            \* "SELECT ... WHERE id = ?" finds no row

Max(a, b) == IF a >= b THEN a ELSE b
Min(a, b) == IF a <= b THEN a ELSE b

VARIABLES
    phase,        \* "idle": no process yet; "running": run() is in its batch loop;
                  \* "done": run() has returned; "exited": the process has ended
    exitCode,     \* exit code of the process that ended last, -1 when none has
    runs,         \* processes started so far
    options,      \* ScrapeOptions of the current run
    idsToScrape,  \* the planned sequence of the current run
    batchStart,   \* loop variable i of the batch loop
    st,           \* per id: position of its limit(...) task
    attempt,      \* per id: loop variable i of withRetry
    outcome,      \* per id: how scrapeSignal ended
    stats,        \* Scraper.stats
    signals,      \* table signals: id -> stored row (NoRow when absent)
    progress,     \* table scrape_progress (the single row id = 1)
    errorLog,     \* table scrape_errors, in insertion order
    fetches,      \* per id: getSignalDetailsHtml calls made in this run
    updates,      \* per id: updateProgress calls made for it in this run
    planProgress, \* scrape_progress as read when the run planned
    planSignals,  \* table signals as read when the run planned
    retry,        \* one call of CallSofiaClient.withRetry, studied on its own
    ups,          \* table signals under SignalDatabase.upsertSignal, studied on its own
    crashedAt,    \* the id whose pipeline the process died in, between the upsert
                  \* of its row and its progress update; 0 when there is none
    extras,       \* --fetch-extras: per id, whether status_history and
                  \* clerk_answers hold rows of the id, and whether the last
                  \* fetchExtras of the id failed on the way
    lookup,       \* one call of SignalDatabase.lookupCategoryIds on synced tables
    parent,       \* one call of CallSofiaClient.extractParentCategoryId
    extract,      \* one call of SignalParser.extractRowValue on a document
    coords,       \* the coordinates block of SignalParser.parse on a document
    parsed,       \* one call of SignalParser.parse on a document
    resolve,      \* scrapeSignal from the parsed record to the stored row
    hist          \* tables status_history and clerk_answers of one signal

mainVars == <<phase, exitCode, runs, options, idsToScrape, batchStart, st, attempt,
              outcome, stats, signals, progress, errorLog, fetches, updates,
              planProgress, planSignals>>

stepVars == <<retry, ups, crashedAt, extras>>

auxVars == <<retry, ups, crashedAt, extras, lookup, parent, extract, coords,
            parsed, resolve, hist>>

pureVars == <<lookup, parent, extract, coords>>

vars == <<phase, exitCode, runs, options, idsToScrape, batchStart, st, attempt,
          outcome, stats, signals, progress, errorLog, fetches, updates,
          planProgress, planSignals, retry, ups, crashedAt,
          extras, lookup, parent, extract, coords, parsed, resolve, hist>>

runVars == <<options, idsToScrape, batchStart, st, attempt, outcome, stats,
             fetches, updates, planProgress, planSignals>>

OptionSet ==
    [start : Ids, end : Ids, concurrency : 1..MaxConcurrency,
     batchSize : 1..MaxBatchSize, resume : BOOLEAN, skipExisting : BOOLEAN]

ZeroStats == [scraped |-> 0, skipped |-> 0, errors |-> 0, notFound |-> 0]
ZeroProgress == [lastScrapedId |-> 0, totalScraped |-> 0, totalErrors |-> 0]

(***************************************************************************)
(* SignalDatabase                                                          *)
(***************************************************************************)
SignalExistsNever(sig, id) == FALSE

SignalExists(sig, id) == sig[id] # NoRow

UpdateProgressRaw(p, lastId, incrementScraped, incrementErrors) ==
    [lastScrapedId |-> lastId,
     totalScraped |-> p.totalScraped + incrementScraped,
     totalErrors |-> p.totalErrors + incrementErrors]

UpdateProgressCountsAll(p, lastId, incrementScraped, incrementErrors) ==
    [lastScrapedId |-> Max(p.lastScrapedId, lastId),
     totalScraped |-> p.totalScraped + 1,
     totalErrors |-> p.totalErrors + incrementErrors]

UpdateProgress(p, lastId, incrementScraped, incrementErrors) ==
    [lastScrapedId |-> Max(p.lastScrapedId, lastId),
     totalScraped |-> p.totalScraped + incrementScraped,
     totalErrors |-> p.totalErrors + incrementErrors]

RECURSIVE MissingFrom(_, _, _)
MissingFrom(sig, i, end) ==
    IF i > end THEN <<>>
    ELSE (IF sig[i] = NoRow THEN <<i>> ELSE <<>>) \o MissingFrom(sig, i + 1, end)

GetMissingIdsAll(sig, start, end) ==
    [k \in 1..Max(end - start + 1, 0) |-> start + k - 1]

GetMissingIds(sig, start, end) == MissingFrom(sig, start, end)

(***************************************************************************)
(* Scraper.run: the range planner                                          *)
(***************************************************************************)
EffectiveStartOffByOne(o, p) ==
    IF o.resume /\ p.lastScrapedId > 0
    THEN Max(o.start, p.lastScrapedId)
    ELSE o.start

EffectiveStart(o, p) ==
    IF o.resume /\ p.lastScrapedId > 0
    THEN Max(o.start, p.lastScrapedId + 1)
    ELSE o.start

DenseRangeFromOne(start, end) ==
    [k \in 1..Max(end, 0) |-> k]

DenseRange(start, end) ==
    [k \in 1..Max(end - start + 1, 0) |-> start + k - 1]

PlanIds(o, p, sig) ==
    IF o.skipExisting
    THEN GetMissingIds(sig, EffectiveStart(o, p), o.end)
    ELSE DenseRange(EffectiveStart(o, p), o.end)

SeqRange(s) == {s[k] : k \in 1..Len(s)}

\* batch = idsToScrape.slice(i, i + batchSize)
BatchAt(ids, i, size) == {ids[k] : k \in (i + 1)..Min(i + size, Len(ids))}

Batch == BatchAt(idsToScrape, batchStart, options.batchSize)

PosOf(id) == CHOOSE k \in 1..Len(idsToScrape) : idsToScrape[k] = id

(***************************************************************************)
(* p-limit: a task holds its slot from the moment it starts until the      *)
(* async function given to limit() resolves, i.e. until the sleep after    *)
(* scrapeSignal is over.                                                   *)
(***************************************************************************)
Working == {id \in Ids : st[id] \in {"fetching", "backoff", "history", "answers"}}
Delaying == {id \in Ids : st[id] = "delay"}
Queued == {id \in Ids : st[id] = "queued"}

ActiveCountWorkingOnly == Cardinality(Working)

ActiveCountNeverReleased ==
    Cardinality(Working \cup Delaying \cup {id \in Ids : st[id] = "done"})

\* activeCount of p-limit: tasks started and not yet resolved
ActiveCount == Cardinality(Working \cup Delaying)

SlotFreeAlways == TRUE

\* p-limit runs a queued task only while activeCount < concurrency
SlotFree == ActiveCount < options.concurrency

\* the queue of p-limit is first-in first-out; tasks were queued in plan order
HeadOfQueue(id) ==
    /\ st[id] = "queued"
    /\ \A other \in Queued : PosOf(id) <= PosOf(other)

BatchSettledNoWait == TRUE

\* await Promise.all(promises): every task of the batch has resolved
BatchSettled == \A id \in Batch : st[id] = "done"

\* no rows of the id in status_history and clerk_answers, no fetchExtras yet
NoExtras == [history |-> FALSE, answers |-> FALSE, failed |-> FALSE]

(***************************************************************************)
(* SignalDatabase.lookupCategoryIds on the tables categories and           *)
(* subcategories.  A table is a set of rows with distinct ids (id is the   *)
(* primary key, rows come in by INSERT OR REPLACE); names need not be      *)
(* distinct.  NoName is a null or empty name, NullId is null.              *)
(***************************************************************************)
NoName == 0

NullId == -1

CatIds == 1..MaxCatId

Names == 1..MaxName

CategoryRows == [id : CatIds, name : Names]

SubcategoryRows == [id : CatIds, name : Names, parent : CatIds]

DistinctIds(rows) == \A r1, r2 \in rows : r1.id = r2.id => r1 = r2

CategoryTables == {t \in SUBSET CategoryRows : DistinctIds(t)}

SubcategoryTables == {t \in SUBSET SubcategoryRows : DistinctIds(t)}

LookupIdle == [pc |-> "idle", categories |-> {}, subcategories |-> {},
               catName |-> NoName, subName |-> NoName,
               categoryId |-> NullId, subcategoryId |-> NullId]

\* row?.id || null
IdOrNull(x) == IF x = 0 THEN NullId ELSE x

IdsByNameAny(rows, name) ==
    IF rows = {} THEN {NullId} ELSE {IdOrNull(r.id) : r \in rows}

\* SELECT id FROM <table> WHERE name = ? with .get(): one of the rows that
\* have the name, whichever the engine yields first, or null when none has
IdsByName(rows, name) ==
    IF {r \in rows : r.name = name} = {}
    THEN {NullId}
    ELSE {IdOrNull(r.id) : r \in {r \in rows : r.name = name}}

\* SELECT parent_category_id FROM subcategories WHERE id = ?
ParentOf(subs, id) ==
    IF {r \in subs : r.id = id} = {}
    THEN NullId
    ELSE IdOrNull((CHOOSE r \in subs : r.id = id).parent)

\* lookupCategoryIds, c and s being what the two SELECT ... WHERE name = ? yield
LookupCategoryIds(subs, catName, subName, c, s) ==
    LET categoryId0 == IF catName # NoName THEN c ELSE NullId
        subcategoryId == IF subName # NoName THEN s ELSE NullId
    IN  [categoryId |->
            IF subName # NoName /\ subcategoryId # NullId /\ categoryId0 = NullId
            THEN ParentOf(subs, subcategoryId)
            ELSE categoryId0,
         subcategoryId |-> subcategoryId]

(***************************************************************************)
(* CallSofiaClient.extractParentCategoryId.  A subcategory id is the       *)
(* parent id followed by the subcategory number in four digits (30271,     *)
(* 280068, 270034); strings of digits are sequences of digits.             *)
(***************************************************************************)
ParentIdle == [pc |-> "idle", id |-> 0, result |-> 0]

\* {parentCategoryID}{subcategoryNumber}
SubcategoryId(parentId, number) == parentId * 10000 + number

RECURSIVE Digits(_)
\* subcategoryId.toString()
Digits(n) == IF n < 10 THEN <<n>> ELSE Append(Digits(n \div 10), n % 10)

\* idStr.startsWith(prefix)
StartsWith(str, prefix) ==
    /\ Len(prefix) <= Len(str)
    /\ SubSeq(str, 1, Len(prefix)) = prefix

RECURSIVE ParseInt(_)
\* parseInt of a string of digits
ParseInt(str) ==
    IF str = <<>> THEN 0
    ELSE 10 * ParseInt(SubSeq(str, 1, Len(str) - 1)) + str[Len(str)]

\* const knownParentIds = [...]
KnownParentIds == <<33, 32, 30, 28, 27, 38, 40, 22, 11, 9, 8, 7, 6, 5, 4, 3, 2, 1>>

\* the for loop returns the first known parent id that idStr starts with; the
\* fallback is parseInt(idStr.substring(0, 2)) || parseInt(idStr.substring(0, 1))
ExtractParentCategoryId(subcategoryId) ==
    LET idStr == Digits(subcategoryId)
        hits == {k \in 1..Len(KnownParentIds) :
                    StartsWith(idStr, Digits(KnownParentIds[k]))}
        two == ParseInt(SubSeq(idStr, 1, Min(2, Len(idStr))))
    IN  IF hits # {}
        THEN KnownParentIds[CHOOSE k \in hits : \A j \in hits : k <= j]
        ELSE IF two # 0 THEN two ELSE ParseInt(SubSeq(idStr, 1, 1))

(***************************************************************************)
(* SignalParser.extractRowValue(label) on a document, seen as cheerio sees *)
(* it: the sequence of its .row elements in document order.  Of a row:     *)
(*   label   a <label> element whose text contains the label is in the row *)
(*   script  the label text occurs in the row outside any label element    *)
(*           (a script, or other text that row.text() flattens)            *)
(*   value   length of the trimmed text of the row's first .col-md-10,     *)
(*           NoElement when the row has none                               *)
(*   next    length of the trimmed text of the element after the label,    *)
(*           NoElement when there is none                                  *)
(* A returned value is named by the row it came from and its length.       *)
(***************************************************************************)
NoElement == -1

TextLengths == {0, 1, 500, 1001}

RowElements ==
    [label : BOOLEAN, script : BOOLEAN,
     value : {NoElement} \cup TextLengths, next : {NoElement} \cup TextLengths]

Documents == UNION {[1..n -> RowElements] : n \in 0..MaxRows}

NoValue == [row |-> 0, len |-> 0]

ExtractIdle == [pc |-> "idle", doc |-> <<>>, result |-> NoValue]

\* if (text && text.length > 0)
NonEmpty(len) == len # NoElement /\ len > 0

\* if (text && text.length > 0 && text.length < 500)
NonEmptyShort(len) == len # NoElement /\ len > 0 /\ len < 500

\* the labels loop: the label elements $(`label:contains(...)`) in document
\* order; of each, the sibling .col-md-10, and then the next sibling
LabelHits(doc) ==
    {i \in 1..Len(doc) :
        doc[i].label /\ (NonEmpty(doc[i].value) \/ NonEmptyShort(doc[i].next))}

\* the .row loop: rows whose text includes the label and that hold a
\* non-empty .col-md-10
RowHits(doc) ==
    {i \in 1..Len(doc) :
        (doc[i].label \/ doc[i].script) /\ NonEmpty(doc[i].value)}

First(S) == CHOOSE i \in S : \A j \in S : i <= j

ExtractRowValue(doc) ==
    IF LabelHits(doc) # {}
    THEN LET i == First(LabelHits(doc))
         IN  [row |-> i,
              len |-> IF NonEmpty(doc[i].value) THEN doc[i].value ELSE doc[i].next]
    ELSE IF RowHits(doc) # {}
         THEN LET i == First(RowHits(doc)) IN [row |-> i, len |-> doc[i].value]
         ELSE NoValue

(***************************************************************************)
(* The coordinates block of SignalParser.parse.  A text is seen through    *)
(* its first bracketed group: the sequence of the comma-separated tokens   *)
(* between "[" and "]", each token a string over the digits and the dot    *)
(* (Dot); <<>> is a text with no bracketed group.  A number is its integer *)
(* part and the digits of its fraction.                                    *)
(***************************************************************************)
Dot == 10

IsDigit(c) == c \in 0..9

ShortChars == {0, 4, Dot}

ShortTokens == UNION {[1..n -> ShortChars] : n \in 1..MaxToken}

\* 42.1 and 23.6, as in [42.123456,23.654321]
SofiaLat == <<4, 2, Dot, 1>>

SofiaLng == <<2, 3, Dot, 6>>

LocationTokens == ShortTokens \cup {SofiaLat, SofiaLng}

ScriptTokens == {SofiaLat, SofiaLng, <<4, Dot, 0>>, <<0>>}

Groups(tokens) == UNION {[1..n -> tokens] : n \in 0..2}

NoText == <<<<-1>>>>

\* what extractRowValue(...) || extractRowValue(...) gives: null or a text
LocationTexts == {NoText} \cup Groups(LocationTokens)

\* $('script').text()
ScriptContents == {<<>>} \cup [1..2 -> ScriptTokens]

NullNumber == [kind |-> "null"]

NaN == [kind |-> "NaN"]

RECURSIVE DigitPrefix(_)
\* the longest prefix of str that consists of digits
DigitPrefix(str) ==
    IF str = <<>> \/ ~IsDigit(Head(str)) THEN <<>>
    ELSE <<Head(str)>> \o DigitPrefix(Tail(str))

\* parseFloat: the longest prefix digits [. digits] that holds a digit
ParseFloat(str) ==
    LET int  == DigitPrefix(str)
        rest == SubSeq(str, Len(int) + 1, Len(str))
        frac == IF rest # <<>> /\ Head(rest) = Dot
                THEN DigitPrefix(Tail(rest)) ELSE <<>>
    IN  IF int = <<>> /\ frac = <<>> THEN NaN
        ELSE [kind |-> "number", int |-> ParseInt(int), frac |-> frac]

\* !latitude is false: not null, not NaN, not 0
Truthy(v) ==
    /\ v.kind = "number"
    /\ v.int # 0 \/ \E i \in 1..Len(v.frac) : v.frac[i] # 0

\* [\d.]+
MatchesNumberChars(t) == t # <<>> /\ \A i \in 1..Len(t) : IsDigit(t[i]) \/ t[i] = Dot

\* \d\.\d+ after the leading digit: one digit, a dot, one digit or more
MatchesTail(t) ==
    /\ Len(t) >= 4
    /\ IsDigit(t[2])
    /\ t[3] = Dot
    /\ \A i \in 4..Len(t) : IsDigit(t[i])

MatchesLatAnyNumber(t) == MatchesNumberChars(t)

\* (4\d\.\d+)
MatchesLat(t) == MatchesTail(t) /\ t[1] = 4

\* (2\d\.\d+)
MatchesLng(t) == MatchesTail(t) /\ t[1] = 2

\* locationText.match(/\[\s*([\d.]+)\s*,\s*([\d.]+)\s*\]/)
CoordMatch(text) ==
    /\ text # NoText
    /\ Len(text) = 2
    /\ MatchesNumberChars(text[1])
    /\ MatchesNumberChars(text[2])

\* scriptContent.match(/\[\s*(4\d\.\d+)\s*,\s*(2\d\.\d+)\s*\]/)
MapDataMatch(script) ==
    /\ Len(script) = 2
    /\ MatchesLat(script[1])
    /\ MatchesLng(script[2])

PairOfLatitudeOnly(m) ==
    [latitude |-> ParseFloat(m[1]), longitude |-> NullNumber]

\* latitude = parseFloat(match[1]); longitude = parseFloat(match[2]);
PairOf(m) ==
    [latitude |-> ParseFloat(m[1]), longitude |-> ParseFloat(m[2])]

NoPair == [latitude |-> NullNumber, longitude |-> NullNumber]

\* the plausible box: latitude 4d.d.., longitude 2d.d..
InBox(pair) ==
    /\ pair.latitude.kind = "number" /\ pair.latitude.int \in 40..49
    /\ pair.longitude.kind = "number" /\ pair.longitude.int \in 20..29

CoordsIdle ==
    [pc |-> "idle", locationText |-> NoText, scriptContent |-> <<>>,
     pair |-> NoPair, source |-> "none"]

(***************************************************************************)
(* CallSofiaClient.withRetry, one call: fn is invoked, and it resolves or  *)
(* rejects; calls counts the invocations of fn, fails the rejections, and  *)
(* the error of an invocation is named by the number of that invocation.   *)
(***************************************************************************)
RetryIdle ==
    [pc |-> "idle", attempts |-> 0, base |-> 0, i |-> 0, calls |-> 0,
     fails |-> 0, sleeps |-> <<>>, lastError |-> 0, result |-> 0]

(***************************************************************************)
(* Table signals under SignalDatabase.upsertSignal.  The table is a set of *)
(* rows, so that the one-row-per-id rule is the work of the statement and  *)
(* not of the representation.  Of the sixteen content columns that the     *)
(* statement treats alike, description and has_documents stand for all.    *)
(***************************************************************************)
Null == "NULL"

RowIds == 1..MaxRowId

Descriptions == {Null, "a", "b"}

Htmls == {Null, "h", "g"}

\* a Signal as scrapeSignal hands it to upsertSignal
SignalRecords ==
    [id : RowIds, description : Descriptions, hasDocuments : BOOLEAN,
     rawHtml : Htmls]

NoRecord == [id |-> 0, description |-> Null, hasDocuments |-> FALSE,
             rawHtml |-> Null]

UpsIdle == [table |-> {}, before |-> {}, rec |-> NoRecord, prevRec |-> NoRecord,
            now |-> 0, count |-> 0]

\* signal.hasDocuments ? 1 : 0
BoolToInt(b) == IF b THEN 1 ELSE 0

CoalesceNewOnly(new, old) == new

CoalesceStoredFirst(new, old) == IF old # Null THEN old ELSE new

\* COALESCE(excluded.raw_html, raw_html)
Coalesce(new, old) == IF new # Null THEN new ELSE old

\* INSERT INTO signals (...) VALUES (...): created_at takes its default
InsertedRow(r, now) ==
    [id |-> r.id, description |-> r.description,
     hasDocuments |-> BoolToInt(r.hasDocuments), rawHtml |-> r.rawHtml,
     createdAt |-> now, updatedAt |-> now]

\* ON CONFLICT(id) DO UPDATE SET ...
UpdatedRow(old, r, now) ==
    [id |-> old.id, description |-> r.description,
     hasDocuments |-> BoolToInt(r.hasDocuments),
     rawHtml |-> Coalesce(r.rawHtml, old.rawHtml),
     createdAt |-> old.createdAt, updatedAt |-> now]

RowsOf(table, id) == {row \in table : row.id = id}

UpsertSignalPlainInsert(table, r, now) == table \cup {InsertedRow(r, now)}

\* upsertSignal: insert, or on a primary-key conflict update the stored row
UpsertSignal(table, r, now) ==
    IF RowsOf(table, r.id) = {}
    THEN table \cup {InsertedRow(r, now)}
    ELSE (table \ RowsOf(table, r.id))
            \cup {UpdatedRow(old, r, now) : old \in RowsOf(table, r.id)}

RetryDelayFlat(base, i) == base

\* this.config.retryDelayMs * (i + 1)
RetryDelay(base, i) == base * (i + 1)

AttemptsLeftAlways(i, attempts) == i < attempts

\* if (i < attempts - 1)
AttemptsLeft(i, attempts) == i < attempts - 1

(***************************************************************************)
(* SignalParser.parse(html, signalId).  A document is seen through what    *)
(* the selectors and regular expressions of parse find in it:              *)
(*   marker1, marker2  the text of body includes the first, the second     *)
(*                     not-found phrase                                    *)
(*   date, regNum      the header text holds a date, a registration number *)
(*   statusIndicator, statusName, statusClass                              *)
(*                     the element has a non-empty trimmed text            *)
(*   district          extractRowValue($, 'Район') finds a value           *)
(*   ogDescription     the content attribute of the og:description meta:   *)
(*                     Null when there is none, "" or a text               *)
(*   panelDescription  extractDescription($) finds a text                  *)
(*   scriptCategoryId  the scripts hold categoryId followed by digits      *)
(* A field of the record is Null or a string that names where the value    *)
(* was read.  neighborhood, address and problemLocation are read as        *)
(* district is; the coordinates and the names are studied on their own.    *)
(***************************************************************************)
EmptyString == ""

ParseDocuments ==
    [marker1 : BOOLEAN, marker2 : BOOLEAN, date : BOOLEAN, regNum : BOOLEAN,
     statusIndicator : BOOLEAN, statusName : BOOLEAN, statusClass : BOOLEAN,
     district : BOOLEAN, ogDescription : {Null, EmptyString, "og"},
     panelDescription : BOOLEAN, scriptCategoryId : BOOLEAN]

ParseNull == [kind |-> "null"]

ParseIdle ==
    [pc |-> "idle", signalId |-> 0, result |-> ParseNull,
     doc |-> [marker1 |-> FALSE, marker2 |-> FALSE, date |-> FALSE,
              regNum |-> FALSE, statusIndicator |-> FALSE, statusName |-> FALSE,
              statusClass |-> FALSE, district |-> FALSE, ogDescription |-> Null,
              panelDescription |-> FALSE, scriptCategoryId |-> FALSE]]

\* bodyText.includes('Няма регистриран сигнал') || bodyText.includes('Невалиден номер')
NotFoundPage(doc) == doc.marker1 \/ doc.marker2

\* the text of an element, trimmed: "" when the element is missing or empty
TextOf(present, name) == IF present THEN name ELSE EmptyString

\* a || b on strings
OrElse(a, b) == IF a # EmptyString THEN a ELSE b

\* $('#statusIndicator').first().text().trim() || $('#statusName').text().trim()
\*    || $('.status_indicator').first().text().trim()
StatusOf(doc) ==
    OrElse(TextOf(doc.statusIndicator, "statusIndicator"),
           OrElse(TextOf(doc.statusName, "statusName"),
                  TextOf(doc.statusClass, "status_indicator")))

\* $('meta[property="og:description"]').attr('content') || null, and
\* extractDescription($) when that is falsy
DescriptionOf(doc) ==
    IF doc.ogDescription \notin {Null, EmptyString} THEN doc.ogDescription
    ELSE IF doc.panelDescription THEN "panel" ELSE Null

SignalOf(doc, signalId) ==
    [id |-> signalId,
     registrationNumber |-> IF doc.regNum THEN "regNum" ELSE Null,
     registrationDate |-> IF doc.date THEN "date" ELSE Null,
     categoryId |-> IF doc.scriptCategoryId THEN "script" ELSE Null,
     status |-> StatusOf(doc),
     statusDate |-> IF doc.date THEN "date" ELSE Null,
     district |-> IF doc.district THEN "district" ELSE Null,
     description |-> DescriptionOf(doc)]

Parse(doc, signalId) ==
    IF NotFoundPage(doc) THEN ParseNull ELSE SignalOf(doc, signalId)

(***************************************************************************)
(* scrapeSignal from the record that parse returned to the row that        *)
(* upsertSignal writes: the ids that parse read in the scripts, the lookup *)
(* of the names in the synced tables, and the ids of the stored row.       *)
(***************************************************************************)
\* what parseInt(catIdMatch[1]) can give: an id that no synced table holds
ScriptIds == {NullId, MaxCatId + 1}

NoIds == [categoryId |-> NullId, subcategoryId |-> NullId]

ResolveIdle ==
    [pc |-> "idle", categories |-> {}, subcategories |-> {},
     catName |-> NoName, subName |-> NoName, scraped |-> NoIds,
     signal |-> NoIds, stored |-> NoIds]

ResolvedSignalKeepsScraped(signal, res) ==
    [categoryId |-> IF res.categoryId # NullId
                    THEN res.categoryId ELSE signal.categoryId,
     subcategoryId |-> IF res.subcategoryId # NullId
                       THEN res.subcategoryId ELSE signal.subcategoryId]

\* signal.categoryId = categoryId; signal.subcategoryId = subcategoryId;
ResolvedSignal(signal, res) ==
    [categoryId |-> res.categoryId, subcategoryId |-> res.subcategoryId]

\* what lookupCategoryIds can return for the two names on the two tables
ResolverResults(cats, subs, catName, subName) ==
    {LookupCategoryIds(subs, catName, subName, c, s) :
        c \in IdsByName(cats, catName), s \in IdsByName(subs, subName)}

(***************************************************************************)
(* SignalDatabase.insertStatusHistory and insertClerkAnswers.  A table is  *)
(* its rows in the order of their AUTOINCREMENT id, with the next id to    *)
(* give out; an entry is its signal and one content column (status, resp.  *)
(* content), the statements treating every content column alike.           *)
(***************************************************************************)
HistSignals == 1..MaxHistSignal

HistContents == {"a", "b"}

\* what getStatusHistory(signalId) / getClerkAnswers(signalId) build: every
\* entry carries the signalId of the call
EntryLists(signalId) ==
    UNION {[1..n -> [signalId : {signalId}, content : HistContents]] :
              n \in 0..MaxEntries}

EmptyTable == [rows |-> <<>>, nextId |-> 1]

NoCall == [op |-> "none", signalId |-> 0, entries |-> <<>>]

HistIdle ==
    [history |-> EmptyTable, answers |-> EmptyTable,
     before |-> [history |-> EmptyTable, answers |-> EmptyTable],
     last |-> NoCall, prev |-> NoCall, calls |-> 0]

\* DELETE FROM <table> WHERE signal_id = ?
DeleteRows(rows, signalId) ==
    LET Keep(r) == r.signalId # signalId IN SelectSeq(rows, Keep)

RECURSIVE InsertRows(_, _)
\* for (const entry of entries) stmt.run(entry.signalId, ...)
InsertRows(table, entries) ==
    IF entries = <<>> THEN table
    ELSE InsertRows(
            [rows |-> Append(table.rows,
                             [id |-> table.nextId,
                              signalId |-> Head(entries).signalId,
                              content |-> Head(entries).content]),
             nextId |-> table.nextId + 1],
            Tail(entries))

ReplaceRowsAppendOnly(table, entries) == InsertRows(table, entries)

\* the transaction: if (entries.length > 0) { deleteStmt.run(entries[0].signalId);
\* for (...) stmt.run(...) }
ReplaceRows(table, entries) ==
    IF Len(entries) > 0
    THEN InsertRows([table EXCEPT !.rows = DeleteRows(@, entries[1].signalId)],
                    entries)
    ELSE table

\* the rows of a signal without their id column, in the order of their ids
EntriesOf(table, signalId) ==
    LET Mine(r) == r.signalId = signalId
        mine == SelectSeq(table.rows, Mine)
    IN  [i \in 1..Len(mine) |->
            [signalId |-> mine[i].signalId, content |-> mine[i].content]]

Init ==
    /\ phase = "idle"
    /\ exitCode = -1
    /\ runs = 0
    /\ options = [start |-> 1, end |-> 1, concurrency |-> 1, batchSize |-> 1,
                  resume |-> FALSE, skipExisting |-> FALSE]
    /\ idsToScrape = <<>>
    /\ batchStart = 0
    /\ st = [id \in Ids |-> "none"]
    /\ attempt = [id \in Ids |-> 0]
    /\ outcome = [id \in Ids |-> "none"]
    /\ stats = ZeroStats
    /\ signals = [id \in Ids |-> NoRow]
    /\ progress = ZeroProgress
    /\ errorLog = <<>>
    /\ fetches = [id \in Ids |-> 0]
    /\ updates = [id \in Ids |-> 0]
    /\ planProgress = ZeroProgress
    /\ planSignals = [id \in Ids |-> NoRow]
    /\ retry = RetryIdle
    /\ ups = UpsIdle
    /\ crashedAt = 0
    /\ extras = [id \in Ids |-> NoExtras]
    /\ lookup = LookupIdle
    /\ parent = ParentIdle
    /\ extract = ExtractIdle
    /\ coords = CoordsIdle
    /\ parsed = ParseIdle
    /\ resolve = ResolveIdle
    /\ hist = HistIdle

(***************************************************************************)
(* A new process: constructor, Scraper.run up to the launch of the first   *)
(* batch.  The memory of the previous process is gone.                     *)
(***************************************************************************)
\* what a fresh process holds in memory before run() has planned anything
FreshMemory ==
    /\ options' = [start |-> 1, end |-> 1, concurrency |-> 1, batchSize |-> 1,
                   resume |-> FALSE, skipExisting |-> FALSE]
    /\ idsToScrape' = <<>>
    /\ batchStart' = 0
    /\ st' = [id \in Ids |-> "none"]
    /\ attempt' = [id \in Ids |-> 0]
    /\ outcome' = [id \in Ids |-> "none"]
    /\ stats' = ZeroStats
    /\ fetches' = [id \in Ids |-> 0]
    /\ updates' = [id \in Ids |-> 0]
    /\ planProgress' = ZeroProgress
    /\ planSignals' = [id \in Ids |-> NoRow]

ConnectFailsQuietly ==
    /\ phase \in {"idle", "exited"}
    /\ runs < MaxRuns
    /\ runs' = runs + 1
    /\ phase' = "exited"
    /\ exitCode' = 0
    /\ FreshMemory
    /\ UNCHANGED <<signals, progress, errorLog>>
    /\ UNCHANGED auxVars

\* testConnection() answers false: process.exit(1) before anything is planned
ConnectFails ==
    /\ phase \in {"idle", "exited"}
    /\ runs < MaxRuns
    /\ runs' = runs + 1
    /\ phase' = "exited"
    /\ exitCode' = 1
    /\ FreshMemory
    /\ UNCHANGED <<signals, progress, errorLog>>
    /\ UNCHANGED auxVars

StartRun(o) ==
    /\ phase \in {"idle", "exited"}
    /\ runs < MaxRuns
    /\ runs' = runs + 1
    /\ options' = o
    /\ idsToScrape' = PlanIds(o, progress, signals)
    /\ batchStart' = 0
    /\ st' = [id \in Ids |->
                IF id \in BatchAt(idsToScrape', 0, o.batchSize)
                THEN "queued" ELSE "none"]
    /\ attempt' = [id \in Ids |-> 0]
    /\ outcome' = [id \in Ids |-> "none"]
    /\ stats' = ZeroStats
    /\ fetches' = [id \in Ids |-> 0]
    /\ updates' = [id \in Ids |-> 0]
    /\ planProgress' = progress
    /\ planSignals' = signals
    /\ phase' = IF idsToScrape' = <<>> THEN "done" ELSE "running"
    /\ exitCode' = -1
    /\ UNCHANGED <<signals, progress, errorLog>>
    /\ UNCHANGED auxVars

(***************************************************************************)
(* p-limit starts the next queued task: scrapeSignal up to its first await *)
(***************************************************************************)
StartItem(id) ==
    /\ phase = "running"
    /\ HeadOfQueue(id)
    /\ SlotFree
    /\ IF ~options.skipExisting /\ SignalExists(signals, id)
       THEN /\ stats' = [stats EXCEPT !.skipped = @ + 1]
            /\ outcome' = [outcome EXCEPT ![id] = "skipped"]
            /\ st' = [st EXCEPT ![id] = "delay"]
            /\ UNCHANGED <<fetches, attempt>>
       ELSE /\ st' = [st EXCEPT ![id] = "fetching"]
            /\ attempt' = [attempt EXCEPT ![id] = 0]
            /\ fetches' = [fetches EXCEPT ![id] = @ + 1]
            /\ UNCHANGED <<stats, outcome>>
    /\ UNCHANGED <<phase, exitCode, runs, options, idsToScrape, batchStart,
                   signals, progress, errorLog, updates, planProgress, planSignals>>
    /\ UNCHANGED auxVars

UpsertRowLost(table, id, d) == table

UpsertRowOther(table, id, d) == [table EXCEPT ![(id % MaxId) + 1] = d]

\* db.upsertSignal(signal): the row of id holds the extracted document
UpsertRow(table, id, d) == [table EXCEPT ![id] = d]

AfterExtrasStrict(failed) == IF failed THEN "error" ELSE "scraped"

\* fetchExtras catches whatever its body throws and resolves: the pipeline
\* goes on to stats.scraped++ whether or not an auxiliary step failed
AfterExtras(failed) == "scraped"

LogErrorDropped(log, id) == log

\* db.logError(id, message, 'scrape'): one row appended to scrape_errors
LogError(log, id) == Append(log, [signalId |-> id, type |-> "scrape"])

CountNotFoundAsError(s) == [s EXCEPT !.errors = @ + 1]

CountNotFoundTwice(s) == [s EXCEPT !.notFound = @ + 2]

\* this.stats.notFound++
CountNotFound(s) == [s EXCEPT !.notFound = @ + 1]

ItemFailedRetried(id) ==
    /\ stats' = [stats EXCEPT !.errors = @ + 1]
    /\ progress' = UpdateProgress(progress, id, 0, 1)
    /\ updates' = [updates EXCEPT ![id] = @ + 1]
    /\ errorLog' = Append(errorLog, [signalId |-> id, type |-> "scrape"])
    /\ outcome' = [outcome EXCEPT ![id] = "error"]
    /\ st' = [st EXCEPT ![id] = IF attempt[id] < RetryAttempts - 1
                                 THEN "backoff" ELSE "delay"]

\* the catch block of scrapeSignal
ItemFailed(id) ==
    /\ stats' = [stats EXCEPT !.errors = @ + 1]
    /\ progress' = UpdateProgress(progress, id, 0, 1)
    /\ updates' = [updates EXCEPT ![id] = @ + 1]
    /\ errorLog' = LogError(errorLog, id)
    /\ outcome' = [outcome EXCEPT ![id] = "error"]
    /\ st' = [st EXCEPT ![id] = "delay"]

ItemNotFoundRetried(id) ==
    /\ stats' = [stats EXCEPT !.notFound = @ + 1]
    /\ progress' = UpdateProgress(progress, id, 0, 0)
    /\ updates' = [updates EXCEPT ![id] = @ + 1]
    /\ outcome' = [outcome EXCEPT ![id] = "notFound"]
    /\ st' = [st EXCEPT ![id] = IF attempt[id] < RetryAttempts - 1
                                 THEN "backoff" ELSE "delay"]
    /\ UNCHANGED errorLog

\* the three "not found" returns of scrapeSignal
ItemNotFound(id) ==
    /\ stats' = CountNotFound(stats)
    /\ progress' = UpdateProgress(progress, id, 0, 0)
    /\ updates' = [updates EXCEPT ![id] = @ + 1]
    /\ outcome' = [outcome EXCEPT ![id] = "notFound"]
    /\ st' = [st EXCEPT ![id] = "delay"]
    /\ UNCHANGED errorLog

(***************************************************************************)
(* The request of getSignalDetailsHtml fails with something other than a   *)
(* 404: withRetry sleeps and retries, or rethrows after the last attempt.  *)
(***************************************************************************)
FetchFails(id) ==
    /\ phase = "running"
    /\ st[id] = "fetching"
    /\ IF attempt[id] < RetryAttempts - 1
       THEN /\ st' = [st EXCEPT ![id] = "backoff"]
            /\ UNCHANGED <<stats, progress, updates, errorLog, outcome>>
       ELSE ItemFailed(id)
    /\ UNCHANGED <<phase, exitCode, runs, options, idsToScrape, batchStart, attempt,
                   signals, fetches, planProgress, planSignals>>
    /\ UNCHANGED auxVars

\* the backoff sleep of withRetry is over: next attempt
BackoffDone(id) ==
    /\ phase = "running"
    /\ st[id] = "backoff"
    /\ st' = [st EXCEPT ![id] = "fetching"]
    /\ attempt' = [attempt EXCEPT ![id] = @ + 1]
    /\ fetches' = [fetches EXCEPT ![id] = @ + 1]
    /\ UNCHANGED <<phase, exitCode, runs, options, idsToScrape, batchStart, outcome,
                   stats, signals, progress, errorLog, updates, planProgress,
                   planSignals>>
    /\ UNCHANGED auxVars

\* HTTP 404 (html === null), or a body with one of the two marker phrases
FetchNotFound(id) ==
    /\ phase = "running"
    /\ st[id] = "fetching"
    /\ ItemNotFound(id)
    /\ UNCHANGED <<phase, exitCode, runs, options, idsToScrape, batchStart, attempt,
                   signals, fetches, planProgress, planSignals>>
    /\ UNCHANGED auxVars

(***************************************************************************)
(* The request answers with document d: parse, lookup, upsert, count.      *)
(* stored = FALSE is html.includes, parser.parse, lookupCategoryIds or     *)
(* upsertSignal throwing: the catch block, and no row written.             *)
(***************************************************************************)
FetchFound(id, d, stored) ==
    /\ phase = "running"
    /\ st[id] = "fetching"
    /\ IF stored
       THEN /\ signals' = UpsertRow(signals, id, d)
            /\ stats' = [stats EXCEPT !.scraped = @ + 1]
            /\ progress' = UpdateProgress(progress, id, 1, 0)
            /\ updates' = [updates EXCEPT ![id] = @ + 1]
            /\ outcome' = [outcome EXCEPT ![id] = "scraped"]
            /\ st' = [st EXCEPT ![id] = "delay"]
            /\ UNCHANGED errorLog
       ELSE /\ ItemFailed(id)
            /\ UNCHANGED signals
    /\ UNCHANGED <<phase, exitCode, runs, options, idsToScrape, batchStart, attempt,
                   fetches, planProgress, planSignals>>
    /\ UNCHANGED auxVars

(***************************************************************************)
(* The pipeline of id throws (last fetch attempt, extraction, lookup or    *)
(* upsert) and then the catch block itself throws: db.updateProgress or,   *)
(* with progressWritten, db.logError after it.  Nothing catches that:      *)
(* scrapeSignal rejects, so do the limit() task, Promise.all and run(),    *)
(* and run().catch closes the database and calls process.exit(1).          *)
(***************************************************************************)
ItemAborts(id, progressWritten) ==
    /\ phase = "running"
    /\ st[id] = "fetching"
    /\ progress' = IF progressWritten
                   THEN UpdateProgress(progress, id, 0, 1)
                   ELSE progress
    /\ phase' = "exited"
    /\ exitCode' = 1
    /\ FreshMemory
    /\ UNCHANGED <<runs, signals, errorLog>>
    /\ UNCHANGED auxVars

\* await this.client.sleep(this.options.delay) is over: the task resolves
DelayDone(id) ==
    /\ phase = "running"
    /\ st[id] = "delay"
    /\ st' = [st EXCEPT ![id] = "done"]
    /\ UNCHANGED <<phase, exitCode, runs, options, idsToScrape, batchStart, attempt,
                   outcome, stats, signals, progress, errorLog, fetches, updates,
                   planProgress, planSignals>>
    /\ UNCHANGED auxVars

(***************************************************************************)
(* Promise.all of the batch resolves: the loop launches the next batch, or *)
(* run() returns after printing the summary.                               *)
(***************************************************************************)
NextBatch ==
    /\ phase = "running"
    /\ BatchSettled
    /\ batchStart' = batchStart + options.batchSize
    /\ IF batchStart' < Len(idsToScrape)
       THEN /\ st' = [id \in Ids |->
                        IF id \in BatchAt(idsToScrape, batchStart', options.batchSize)
                        THEN "queued" ELSE st[id]]
            /\ UNCHANGED <<phase, exitCode>>
       ELSE /\ phase' = "done"
            /\ UNCHANGED <<exitCode, st>>
    /\ UNCHANGED <<runs, options, idsToScrape, attempt, outcome, stats, signals,
                   progress, errorLog, fetches, updates, planProgress, planSignals>>
    /\ UNCHANGED auxVars

\* run() has resolved: scraper.close(), and the process ends with code 0
ProcessEnds ==
    /\ phase = "done"
    /\ phase' = "exited"
    /\ exitCode' = 0
    /\ FreshMemory
    /\ UNCHANGED <<runs, signals, progress, errorLog>>
    /\ UNCHANGED auxVars

\* SIGINT: scraper.close(); process.exit(0).  Pending tasks and the memory of
\* the process die with it; the database file stays.
Interrupt ==
    /\ phase = "running"
    /\ phase' = "exited"
    /\ exitCode' = 0
    /\ FreshMemory
    /\ UNCHANGED <<runs, signals, progress, errorLog>>
    /\ UNCHANGED auxVars

\* SignalDatabase.resetProgress, the operator's reset, between two runs
ResetProgress ==
    /\ phase \in {"idle", "exited"}
    /\ progress # ZeroProgress
    /\ progress' = ZeroProgress
    /\ UNCHANGED <<phase, exitCode, runs, signals, errorLog>>
    /\ UNCHANGED runVars
    /\ UNCHANGED auxVars

Next ==
    \/ ConnectFails
    \/ \E o \in OptionSet : StartRun(o)
    \/ \E id \in Ids : StartItem(id)
    \/ \E id \in Ids : FetchFails(id)
    \/ \E id \in Ids : BackoffDone(id)
    \/ \E id \in Ids : FetchNotFound(id)
    \/ \E id \in Ids, d \in Docs, stored \in BOOLEAN : FetchFound(id, d, stored)
    \/ \E id \in Ids, progressWritten \in BOOLEAN : ItemAborts(id, progressWritten)
    \/ \E id \in Ids : DelayDone(id)
    \/ NextBatch
    \/ ProcessEnds
    \/ Interrupt
    \/ ResetProgress

Spec == Init /\ [][Next]_vars

(***************************************************************************)
(* The process dies inside scrapeSignal between db.upsertSignal and        *)
(* db.updateProgress: the row of id is committed, the progress update is   *)
(* never made.  With --fetch-extras there is an await between the two.     *)
(***************************************************************************)
CrashAfterUpsert(id, d) ==
    /\ phase = "running"
    /\ st[id] = "fetching"
    /\ signals' = UpsertRow(signals, id, d)
    /\ crashedAt' = id
    /\ phase' = "exited"
    /\ exitCode' = 1
    /\ FreshMemory
    /\ UNCHANGED <<runs, progress, errorLog>>
    /\ UNCHANGED <<retry, ups, extras, lookup, parent, extract, coords, parsed, resolve, hist>>

NextCrash ==
    \/ \E o \in OptionSet : StartRun(o)
    \/ \E id \in Ids : StartItem(id)
    \/ \E id \in Ids : FetchFails(id)
    \/ \E id \in Ids : BackoffDone(id)
    \/ \E id \in Ids : FetchNotFound(id)
    \/ \E id \in Ids, d \in Docs, stored \in BOOLEAN : FetchFound(id, d, stored)
    \/ \E id \in Ids, d \in Docs : CrashAfterUpsert(id, d)
    \/ \E id \in Ids : DelayDone(id)
    \/ NextBatch
    \/ ProcessEnds

SpecCrash == Init /\ [][NextCrash]_vars

(***************************************************************************)
(* scrapeSignal with --fetch-extras: after the upsert the pipeline awaits  *)
(* fetchExtras(id), and only then counts the item and updates progress.    *)
(***************************************************************************)
\* the request answers with document d: parse, lookup, upsert, and
\* fetchExtras is entered: the status-history request is on its way
FetchFoundExtras(id, d) ==
    /\ phase = "running"
    /\ st[id] = "fetching"
    /\ signals' = UpsertRow(signals, id, d)
    /\ st' = [st EXCEPT ![id] = "history"]
    /\ extras' = [extras EXCEPT ![id].failed = FALSE]
    /\ UNCHANGED <<phase, exitCode, runs, options, idsToScrape, batchStart, attempt,
                   outcome, stats, progress, errorLog, fetches, updates,
                   planProgress, planSignals>>
    /\ UNCHANGED <<retry, ups, crashedAt, lookup, parent, extract, coords, parsed, resolve, hist>>

\* scrapeSignal after fetchExtras has resolved: stats.scraped++, updateProgress
ExtrasReturn(id, failed) ==
    IF AfterExtras(failed) = "scraped"
    THEN /\ stats' = [stats EXCEPT !.scraped = @ + 1]
         /\ progress' = UpdateProgress(progress, id, 1, 0)
         /\ updates' = [updates EXCEPT ![id] = @ + 1]
         /\ outcome' = [outcome EXCEPT ![id] = "scraped"]
         /\ st' = [st EXCEPT ![id] = "delay"]
         /\ UNCHANGED errorLog
    ELSE ItemFailed(id)

\* getStatusHistory answers: "rows" are stored by insertStatusHistory, "empty"
\* is an empty or malformed answer or a failed request (all give []),
\* "storeFails" is insertStatusHistory throwing, which ends fetchExtras in its
\* catch block before the clerk answers are asked for
ExtrasHistory(id, res) ==
    /\ phase = "running"
    /\ st[id] = "history"
    /\ IF res = "storeFails"
       THEN /\ extras' = [extras EXCEPT ![id].failed = TRUE]
            /\ ExtrasReturn(id, TRUE)
       ELSE /\ extras' = [extras EXCEPT
                            ![id].history = IF res = "rows" THEN TRUE ELSE @,
                            ![id].failed = IF res = "fetchFails" THEN TRUE ELSE @]
            /\ st' = [st EXCEPT ![id] = "answers"]
            /\ UNCHANGED <<stats, progress, updates, outcome, errorLog>>
    /\ UNCHANGED <<phase, exitCode, runs, options, idsToScrape, batchStart, attempt,
                   signals, fetches, planProgress, planSignals>>
    /\ UNCHANGED <<retry, ups, crashedAt, lookup, parent, extract, coords, parsed, resolve, hist>>

\* getClerkAnswers answers, likewise; then fetchExtras resolves
ExtrasAnswers(id, res) ==
    /\ phase = "running"
    /\ st[id] = "answers"
    /\ extras' = [extras EXCEPT
                    ![id].answers = IF res = "rows" THEN TRUE ELSE @,
                    ![id].failed = IF res \in {"fetchFails", "storeFails"}
                                   THEN TRUE ELSE @]
    /\ ExtrasReturn(id, extras'[id].failed)
    /\ UNCHANGED <<phase, exitCode, runs, options, idsToScrape, batchStart, attempt,
                   signals, fetches, planProgress, planSignals>>
    /\ UNCHANGED <<retry, ups, crashedAt, lookup, parent, extract, coords, parsed, resolve, hist>>

ExtrasResults == {"rows", "empty", "fetchFails", "storeFails"}

\* a run with --fetch-extras
StartExtrasRun(o) ==
    /\ runs < MaxExtrasRuns
    /\ StartRun(o)

NextExtras ==
    \/ \E o \in OptionSet : StartExtrasRun(o)
    \/ \E id \in Ids : StartItem(id)
    \/ \E id \in Ids : FetchFails(id)
    \/ \E id \in Ids : BackoffDone(id)
    \/ \E id \in Ids : FetchNotFound(id)
    \/ \E id \in Ids, d \in Docs : FetchFoundExtras(id, d)
    \/ \E id \in Ids, res \in ExtrasResults : ExtrasHistory(id, res)
    \/ \E id \in Ids, res \in ExtrasResults : ExtrasAnswers(id, res)
    \/ \E id \in Ids : DelayDone(id)
    \/ NextBatch
    \/ ProcessEnds

SpecExtras == Init /\ [][NextExtras]_vars

(***************************************************************************)
(* SignalDatabase.lookupCategoryIds after a sync of the two tables         *)
(***************************************************************************)
\* syncCategories: upsertCategories and upsertSubcategories have filled the tables
LookupSync(cats, subs) ==
    /\ lookup.pc = "idle"
    /\ lookup' = [lookup EXCEPT !.pc = "synced", !.categories = cats,
                                !.subcategories = subs]
    /\ UNCHANGED mainVars
    /\ UNCHANGED stepVars
    /\ UNCHANGED <<parent, extract, coords, parsed, resolve, hist>>

\* db.lookupCategoryIds(categoryName, subcategoryName)
LookupCall(catName, subName) ==
    /\ lookup.pc = "synced"
    /\ \E c \in IdsByName(lookup.categories, catName),
          s \in IdsByName(lookup.subcategories, subName) :
          LET res == LookupCategoryIds(lookup.subcategories, catName, subName, c, s)
          IN  lookup' = [lookup EXCEPT !.pc = "returned",
                                       !.catName = catName, !.subName = subName,
                                       !.categoryId = res.categoryId,
                                       !.subcategoryId = res.subcategoryId]
    /\ UNCHANGED mainVars
    /\ UNCHANGED stepVars
    /\ UNCHANGED <<parent, extract, coords, parsed, resolve, hist>>

NextLookup ==
    \/ \E cats \in CategoryTables, subs \in SubcategoryTables : LookupSync(cats, subs)
    \/ \E catName, subName \in {NoName} \cup Names : LookupCall(catName, subName)

SpecLookup == Init /\ [][NextLookup]_vars

(***************************************************************************)
(* getSubcategories maps an item of the remote list: extractParentCategoryId *)
(***************************************************************************)
\* this.extractParentCategoryId(item.ID) is called
ParentCall(parentId, number) ==
    /\ parent.pc = "idle"
    /\ parent' = [parent EXCEPT !.pc = "called",
                                !.id = SubcategoryId(parentId, number)]
    /\ UNCHANGED mainVars
    /\ UNCHANGED stepVars
    /\ UNCHANGED <<lookup, extract, coords, parsed, resolve, hist>>

\* and returns
ParentReturn ==
    /\ parent.pc = "called"
    /\ parent' = [parent EXCEPT !.pc = "returned",
                                !.result = ExtractParentCategoryId(parent.id)]
    /\ UNCHANGED mainVars
    /\ UNCHANGED stepVars
    /\ UNCHANGED <<lookup, extract, coords, parsed, resolve, hist>>

NextParent ==
    \/ \E parentId \in 1..MaxParentId, number \in 0..MaxSubNumber :
           ParentCall(parentId, number)
    \/ ParentReturn

SpecParent == Init /\ [][NextParent]_vars

(***************************************************************************)
(* SignalParser.extractRowValue on a document                              *)
(***************************************************************************)
\* this.extractRowValue($, label) is called on a loaded document
ExtractCall(doc) ==
    /\ extract.pc = "idle"
    /\ extract' = [extract EXCEPT !.pc = "called", !.doc = doc]
    /\ UNCHANGED mainVars
    /\ UNCHANGED stepVars
    /\ UNCHANGED <<lookup, parent, coords, parsed, resolve, hist>>

\* and returns a text or null
ExtractReturn ==
    /\ extract.pc = "called"
    /\ extract' = [extract EXCEPT !.pc = "returned",
                                  !.result = ExtractRowValue(extract.doc)]
    /\ UNCHANGED mainVars
    /\ UNCHANGED stepVars
    /\ UNCHANGED <<lookup, parent, coords, parsed, resolve, hist>>

NextExtract ==
    \/ \E doc \in Documents : ExtractCall(doc)
    \/ ExtractReturn

SpecExtract == Init /\ [][NextExtract]_vars

(***************************************************************************)
(* SignalParser.parse, the coordinates of the record                       *)
(***************************************************************************)
\* let latitude = null; let longitude = null; const locationText = ...
CoordsCall(text, script) ==
    /\ coords.pc = "idle"
    /\ coords' = [coords EXCEPT !.pc = "called", !.locationText = text,
                                !.scriptContent = script]
    /\ UNCHANGED mainVars
    /\ UNCHANGED stepVars
    /\ UNCHANGED <<lookup, parent, extract, parsed, resolve, hist>>

\* if (locationText) { const coordMatch = ...; if (coordMatch) {...} }
CoordsFromLocation ==
    /\ coords.pc = "called"
    /\ IF CoordMatch(coords.locationText)
       THEN coords' = [coords EXCEPT !.pc = "located",
                                     !.pair = PairOf(coords.locationText),
                                     !.source = "location"]
       ELSE coords' = [coords EXCEPT !.pc = "located"]
    /\ UNCHANGED mainVars
    /\ UNCHANGED stepVars
    /\ UNCHANGED <<lookup, parent, extract, parsed, resolve, hist>>

\* if (!latitude || !longitude) { ...; if (mapDataMatch) {...} }
CoordsFromScript ==
    /\ coords.pc = "located"
    /\ IF /\ ~Truthy(coords.pair.latitude) \/ ~Truthy(coords.pair.longitude)
          /\ MapDataMatch(coords.scriptContent)
       THEN coords' = [coords EXCEPT !.pc = "done",
                                     !.pair = PairOf(coords.scriptContent),
                                     !.source = "script"]
       ELSE coords' = [coords EXCEPT !.pc = "done"]
    /\ UNCHANGED mainVars
    /\ UNCHANGED stepVars
    /\ UNCHANGED <<lookup, parent, extract, parsed, resolve, hist>>

NextCoords ==
    \/ \E text \in LocationTexts, script \in ScriptContents :
          CoordsCall(text, script)
    \/ CoordsFromLocation
    \/ CoordsFromScript

SpecCoords == Init /\ [][NextCoords]_vars

(***************************************************************************)
(* SignalDatabase.upsertSignal and upsertSignals on the table signals      *)
(***************************************************************************)
\* db.upsertSignal(r)
UpsertOne(r) ==
    /\ ups.count < MaxUpserts
    /\ ups' = [table |-> UpsertSignal(ups.table, r, ups.now),
               before |-> ups.table,
               rec |-> r,
               prevRec |-> ups.rec,
               now |-> ups.now,
               count |-> ups.count + 1]
    /\ UNCHANGED mainVars
    /\ UNCHANGED <<retry, crashedAt, extras, lookup, parent, extract, coords, parsed, resolve, hist>>

\* db.upsertSignals([r1, r2]): both upserts in one transaction
UpsertTwo(r1, r2) ==
    /\ ups.count + 2 <= MaxUpserts
    /\ ups' = [table |-> UpsertSignal(UpsertSignal(ups.table, r1, ups.now),
                                      r2, ups.now),
               before |-> UpsertSignal(ups.table, r1, ups.now),
               rec |-> r2,
               prevRec |-> r1,
               now |-> ups.now,
               count |-> ups.count + 2]
    /\ UNCHANGED mainVars
    /\ UNCHANGED <<retry, crashedAt, extras, lookup, parent, extract, coords, parsed, resolve, hist>>

\* the clock of datetime('now') moves on
ClockTick ==
    /\ ups.now < MaxClock
    /\ ups' = [ups EXCEPT !.now = @ + 1]
    /\ UNCHANGED mainVars
    /\ UNCHANGED <<retry, crashedAt, extras, lookup, parent, extract, coords, parsed, resolve, hist>>

NextUpsert ==
    \/ \E r \in SignalRecords : UpsertOne(r)
    \/ \E r1, r2 \in SignalRecords : UpsertTwo(r1, r2)
    \/ ClockTick

SpecUpsert == Init /\ [][NextUpsert]_vars

(***************************************************************************)
(* withRetry(fn, attempts) with base delay retryDelayMs                    *)
(***************************************************************************)
\* the call: the loop starts with i = 0 and invokes fn
RetryCall(n, base) ==
    /\ retry.pc = "idle"
    /\ retry' = [RetryIdle EXCEPT !.pc = "calling", !.attempts = n, !.base = base,
                                  !.calls = 1]
    /\ UNCHANGED mainVars
    /\ UNCHANGED <<ups, crashedAt, extras, lookup, parent, extract, coords, parsed, resolve, hist>>

\* return await fn(): fn resolves and withRetry returns its value
RetryFnResolves ==
    /\ retry.pc = "calling"
    /\ retry' = [retry EXCEPT !.pc = "returned", !.result = retry.calls]
    /\ UNCHANGED mainVars
    /\ UNCHANGED <<ups, crashedAt, extras, lookup, parent, extract, coords, parsed, resolve, hist>>

\* catch: fn rejects; sleep when attempts remain, else leave the loop and throw
RetryFnRejects ==
    /\ retry.pc = "calling"
    /\ IF AttemptsLeft(retry.i, retry.attempts)
       THEN retry' = [retry EXCEPT
                        !.pc = "sleeping",
                        !.fails = @ + 1,
                        !.lastError = retry.calls,
                        !.sleeps = Append(@, RetryDelay(retry.base, retry.i))]
       ELSE retry' = [retry EXCEPT
                        !.pc = IF retry.i + 1 < retry.attempts
                               THEN "calling" ELSE "thrown",
                        !.i = @ + 1,
                        !.calls = IF retry.i + 1 < retry.attempts THEN @ + 1 ELSE @,
                        !.fails = @ + 1,
                        !.lastError = retry.calls]
    /\ UNCHANGED mainVars
    /\ UNCHANGED <<ups, crashedAt, extras, lookup, parent, extract, coords, parsed, resolve, hist>>

\* the sleep is over: i++, and the loop goes on while i < attempts
RetrySleepDone ==
    /\ retry.pc = "sleeping"
    /\ IF retry.i + 1 < retry.attempts
       THEN retry' = [retry EXCEPT !.pc = "calling", !.i = @ + 1, !.calls = @ + 1]
       ELSE retry' = [retry EXCEPT !.pc = "thrown", !.i = @ + 1]
    /\ UNCHANGED mainVars
    /\ UNCHANGED <<ups, crashedAt, extras, lookup, parent, extract, coords, parsed, resolve, hist>>

NextRetry ==
    \/ \E n \in 1..MaxAttempts, base \in 1..MaxBaseDelay : RetryCall(n, base)
    \/ RetryFnResolves
    \/ RetryFnRejects
    \/ RetrySleepDone

SpecRetry == Init /\ [][NextRetry]_vars

(***************************************************************************)
(* SignalParser.parse on a document                                        *)
(***************************************************************************)
\* this.parser.parse(html, id)
ParseCall(doc, signalId) ==
    /\ parsed.pc = "idle"
    /\ parsed' = [parsed EXCEPT !.pc = "called", !.doc = doc, !.signalId = signalId]
    /\ UNCHANGED mainVars
    /\ UNCHANGED stepVars
    /\ UNCHANGED pureVars
    /\ UNCHANGED <<resolve, hist>>

\* and returns null or the record; no statement of parse throws on a string
ParseReturn ==
    /\ parsed.pc = "called"
    /\ parsed' = [parsed EXCEPT !.pc = "returned",
                                !.result = Parse(parsed.doc, parsed.signalId)]
    /\ UNCHANGED mainVars
    /\ UNCHANGED stepVars
    /\ UNCHANGED pureVars
    /\ UNCHANGED <<resolve, hist>>

NextParse ==
    \/ \E doc \in ParseDocuments, signalId \in 1..MaxParseId : ParseCall(doc, signalId)
    \/ ParseReturn

SpecParse == Init /\ [][NextParse]_vars

(***************************************************************************)
(* A run that nothing cuts short: no SIGINT, and no throw inside the catch *)
(* block.  The event loop runs every callback that is ready: a queued task *)
(* starts when a slot is free, a pending request resolves or rejects, a    *)
(* timer (backoff, delay) fires, and Promise.all resolves once its tasks   *)
(* have.                                                                   *)
(***************************************************************************)
\* the request of id returns or fails
FetchSettles(id) ==
    \/ FetchFails(id)
    \/ FetchNotFound(id)
    \/ \E d \in Docs, stored \in BOOLEAN : FetchFound(id, d, stored)

NextLive ==
    \/ \E o \in OptionSet : StartRun(o)
    \/ \E id \in Ids : StartItem(id)
    \/ \E id \in Ids : FetchSettles(id)
    \/ \E id \in Ids : BackoffDone(id)
    \/ \E id \in Ids : DelayDone(id)
    \/ NextBatch
    \/ ProcessEnds

Fairness ==
    /\ \A id \in Ids : WF_vars(StartItem(id))
    /\ \A id \in Ids : WF_vars(FetchSettles(id))
    /\ \A id \in Ids : WF_vars(BackoffDone(id))
    /\ \A id \in Ids : WF_vars(DelayDone(id))
    /\ WF_vars(NextBatch)

SpecLive == Init /\ [][NextLive]_vars /\ Fairness

(***************************************************************************)
(* scrapeSignal: parse, lookupCategoryIds, upsertSignal                    *)
(***************************************************************************)
\* const signal = this.parser.parse(html, id), on synced tables
ResolveParsed(cats, subs, catName, subName, scriptCat, scriptSub) ==
    /\ resolve.pc = "idle"
    /\ resolve' = [resolve EXCEPT
                     !.pc = "parsed", !.categories = cats, !.subcategories = subs,
                     !.catName = catName, !.subName = subName,
                     !.scraped = [categoryId |-> scriptCat, subcategoryId |-> scriptSub],
                     !.signal = [categoryId |-> scriptCat, subcategoryId |-> scriptSub]]
    /\ UNCHANGED mainVars
    /\ UNCHANGED stepVars
    /\ UNCHANGED pureVars
    /\ UNCHANGED <<parsed, hist>>

\* const { categoryId, subcategoryId } = this.db.lookupCategoryIds(...);
\* signal.categoryId = categoryId; signal.subcategoryId = subcategoryId;
ResolveLookup ==
    /\ resolve.pc = "parsed"
    /\ \E res \in ResolverResults(resolve.categories, resolve.subcategories,
                                  resolve.catName, resolve.subName) :
          resolve' = [resolve EXCEPT !.pc = "resolved",
                                     !.signal = ResolvedSignal(resolve.signal, res)]
    /\ UNCHANGED mainVars
    /\ UNCHANGED stepVars
    /\ UNCHANGED pureVars
    /\ UNCHANGED <<parsed, hist>>

\* this.db.upsertSignal(signal): category_id and subcategory_id of the row
ResolveUpsert ==
    /\ resolve.pc = "resolved"
    /\ resolve' = [resolve EXCEPT !.pc = "stored", !.stored = resolve.signal]
    /\ UNCHANGED mainVars
    /\ UNCHANGED stepVars
    /\ UNCHANGED pureVars
    /\ UNCHANGED <<parsed, hist>>

NextResolve ==
    \/ \E cats \in CategoryTables, subs \in SubcategoryTables,
          catName, subName \in {NoName} \cup Names, scriptCat, scriptSub \in ScriptIds :
          ResolveParsed(cats, subs, catName, subName, scriptCat, scriptSub)
    \/ ResolveLookup
    \/ ResolveUpsert

SpecResolve == Init /\ [][NextResolve]_vars

(***************************************************************************)
(* The two tables under insertStatusHistory, insertClerkAnswers and the    *)
(* guards of fetchExtras                                                   *)
(***************************************************************************)
HistCalled(op, signalId, entries) ==
    [hist EXCEPT !.before = [history |-> hist.history, answers |-> hist.answers],
                 !.prev = hist.last,
                 !.last = [op |-> op, signalId |-> signalId, entries |-> entries],
                 !.calls = @ + 1]

\* this.db.insertStatusHistory(entries)
InsertStatusHistory(signalId, entries) ==
    /\ hist.calls < MaxHistCalls
    /\ hist' = [HistCalled("history", signalId, entries) EXCEPT
                   !.history = ReplaceRows(hist.history, entries)]
    /\ UNCHANGED mainVars
    /\ UNCHANGED stepVars
    /\ UNCHANGED pureVars
    /\ UNCHANGED <<parsed, resolve>>

\* this.db.insertClerkAnswers(answers)
InsertClerkAnswers(signalId, answers) ==
    /\ hist.calls < MaxHistCalls
    /\ hist' = [HistCalled("answers", signalId, answers) EXCEPT
                   !.answers = ReplaceRows(hist.answers, answers)]
    /\ UNCHANGED mainVars
    /\ UNCHANGED stepVars
    /\ UNCHANGED pureVars
    /\ UNCHANGED <<parsed, resolve>>

\* fetchExtras when both fetches degraded to []: statusHistory.length > 0 and
\* clerkAnswers.length > 0 are false, neither insert is called
FetchExtrasDegraded(signalId) ==
    /\ hist.calls < MaxHistCalls
    /\ hist' = HistCalled("degraded", signalId, <<>>)
    /\ UNCHANGED mainVars
    /\ UNCHANGED stepVars
    /\ UNCHANGED pureVars
    /\ UNCHANGED <<parsed, resolve>>

NextHist ==
    \/ \E signalId \in HistSignals : \E entries \in EntryLists(signalId) :
          InsertStatusHistory(signalId, entries)
    \/ \E signalId \in HistSignals : \E answers \in EntryLists(signalId) :
          InsertClerkAnswers(signalId, answers)
    \/ \E signalId \in HistSignals : FetchExtrasDegraded(signalId)

SpecHist == Init /\ [][NextHist]_vars

(***************************************************************************)
(* Vocabulary of the properties                                            *)
(***************************************************************************)
Planned == SeqRange(idsToScrape)
Settled(id) == outcome[id] # "none"
Started(id) == st[id] \notin {"none", "queued"}
Watermark == progress.lastScrapedId
PlanWatermark == planProgress.lastScrapedId
HasPlan == phase \in {"running", "done"}
BatchOf(k) == (k - 1) \div options.batchSize
CountOutcome(o) == Cardinality({id \in Ids : outcome[id] = o})

(***************************************************************************)
(* C1: every settled id of the plan, whatever its outcome (scraped,        *)
(* skipped, not-found, error), has had exactly one updateProgress call in  *)
(* this run, and the persisted watermark is at least that id.              *)
(***************************************************************************)
C1_OneProgressUpdatePerSettledId ==
    phase = "running" =>
        \A id \in Planned :
            Settled(id) => updates[id] = 1 /\ Watermark >= id

(***************************************************************************)
(* C2: while a run is going, the persisted watermark describes a prefix of *)
(* the plan: every planned id at or below the watermark has settled.       *)
(***************************************************************************)
C2_WatermarkIsPrefix ==
    phase = "running" =>
        \A id \in Planned : id <= Watermark => Settled(id)

(***************************************************************************)
(* C3: an updateProgress call for id sets the watermark to the maximum of  *)
(* the previous watermark and id, and no step lowers last_scraped_id       *)
(* except resetProgress, which is taken between runs and zeroes the row.   *)
(***************************************************************************)
C3_WatermarkMonotonic ==
    [][/\ \A id \in Ids :
              updates'[id] = updates[id] + 1
                  => progress'.lastScrapedId = Max(Watermark, id)
       /\ progress'.lastScrapedId < Watermark
              => phase # "running" /\ progress' = ZeroProgress]_vars

\* an id below the watermark the run started with has had its update
C3_Witness ==
    \E id \in Ids : updates[id] = 1 /\ id < PlanWatermark /\ Watermark = PlanWatermark

(***************************************************************************)
(* C4: with resume set and a checkpoint watermark W, the plan holds no id  *)
(* <= W and none below max(start, W + 1), the dense plan starts exactly at *)
(* max(start, W + 1), and the plan is a subset of the plan of a run        *)
(* without resume over the same range and the same store.                  *)
(***************************************************************************)
C4_ResumeSubsetOfFresh ==
    (HasPlan /\ options.resume) =>
        LET from == Max(options.start, PlanWatermark + 1)
            fresh == PlanIds([options EXCEPT !.resume = FALSE],
                             planProgress, planSignals)
        IN  /\ \A id \in Planned : id > PlanWatermark /\ id >= from
            /\ (~options.skipExisting /\ idsToScrape # <<>>)
                   => idsToScrape[1] = from
            /\ Planned \subseteq SeqRange(fresh)

\* a resumed run whose requested start lies at or below the checkpoint
C4_Witness ==
    /\ phase = "running" /\ options.resume
    /\ PlanWatermark > 0 /\ options.start <= PlanWatermark
    /\ idsToScrape # <<>>

(***************************************************************************)
(* C5: the planned sequence is strictly ascending (hence without           *)
(* duplicates) and holds only ids of the requested [start, end].           *)
(***************************************************************************)
C5_PlanAscendingInRange ==
    HasPlan =>
        /\ \A k \in 1..Len(idsToScrape) :
               idsToScrape[k] >= options.start /\ idsToScrape[k] <= options.end
        /\ \A k \in 1..(Len(idsToScrape) - 1) :
               idsToScrape[k] < idsToScrape[k + 1]

\* a plan of several ids that does not start at id 1
C5_Witness ==
    phase = "running" /\ Len(idsToScrape) >= 2 /\ options.start > 1

(***************************************************************************)
(* C6: with skip-existing set, the plan is exactly the ids of              *)
(* [effective start, end] that have no stored row when the run plans.      *)
(***************************************************************************)
C6_SkipExistingIsSetDifference ==
    (HasPlan /\ options.skipExisting) =>
        LET from == IF options.resume /\ PlanWatermark > 0
                    THEN Max(options.start, PlanWatermark + 1)
                    ELSE options.start
        IN  Planned = {i \in from..options.end : planSignals[i] = NoRow}

\* a skip-existing plan over a range that holds a stored id and a missing one
C6_Witness ==
    /\ phase = "running" /\ options.skipExisting
    /\ \E i, j \in options.start..options.end :
           planSignals[i] # NoRow /\ planSignals[j] = NoRow /\ j \in Planned

(***************************************************************************)
(* C7: with skip-existing off, an id that has a stored row when its        *)
(* pipeline starts is skipped: no fetch is made for it, its stored row is  *)
(* the one it had, and it is counted in skipped and not in scraped.        *)
(***************************************************************************)
C7_ExistingIsSkippedWithoutFetch ==
    (phase = "running" /\ ~options.skipExisting) =>
        /\ \A id \in Planned :
               (Started(id) /\ planSignals[id] # NoRow) =>
                   /\ outcome[id] = "skipped"
                   /\ fetches[id] = 0
                   /\ signals[id] = planSignals[id]
        /\ stats.skipped =
               Cardinality({id \in Planned : Started(id) /\ planSignals[id] # NoRow})
        /\ stats.scraped = CountOutcome("scraped")
        /\ \A id \in Ids : outcome[id] = "scraped" => planSignals[id] = NoRow

\* an id with a stored row has gone through its pipeline
C7_Witness ==
    /\ phase = "running" /\ ~options.skipExisting
    /\ \E id \in Planned : outcome[id] = "skipped" /\ signals[id] # NoRow

(***************************************************************************)
(* C8: at every instant the pipelines that have started and not finished   *)
(* (fetch, retry backoff, extraction, store) number at most N.             *)
(***************************************************************************)
C8_AtMostNInFlight ==
    phase = "running" => Cardinality(Working) <= options.concurrency

\* the limit is reached while a task of the batch waits in the queue
C8_Witness ==
    /\ phase = "running"
    /\ Cardinality(Working) = options.concurrency
    /\ Queued # {}

(***************************************************************************)
(* C9: no item of a later batch has started its pipeline while an item of  *)
(* an earlier batch has not settled.                                       *)
(***************************************************************************)
C9_BatchesDoNotOverlap ==
    phase = "running" =>
        \A p, q \in 1..Len(idsToScrape) :
            (BatchOf(p) < BatchOf(q) /\ Started(idsToScrape[q]))
                => Settled(idsToScrape[p]) /\ st[idsToScrape[p]] = "done"

\* an item of the second batch runs after a first batch of two items that
\* ended differently
C9_Witness ==
    /\ phase = "running" /\ options.batchSize = 2 /\ options.concurrency = 2
    /\ Len(idsToScrape) >= 3
    /\ Started(idsToScrape[3])
    /\ outcome[idsToScrape[1]] # outcome[idsToScrape[2]]

(***************************************************************************)
(* C10 as stated: an item in its post-fetch delay holds no slot, so a      *)
(* waiting item can start whenever fewer than N items are in fetch or      *)
(* backoff.                                                                *)
(***************************************************************************)
C10_DelayFreesSlot ==
    (phase = "running" /\ Queued # {} /\ Cardinality(Working) < options.concurrency)
        => ENABLED (\E id \in Ids : StartItem(id))

(***************************************************************************)
(* C10 amended: the delay is part of the limited task, so an item keeps    *)
(* its slot until its delay is over: the items in fetch, backoff or delay  *)
(* number at most N, and a queued item starts only when they number less   *)
(* than N.                                                                 *)
(***************************************************************************)
C10_DelayHoldsSlot ==
    /\ phase = "running" =>
           Cardinality(Working \cup Delaying) <= options.concurrency
    /\ (phase = "running" /\ Cardinality(Delaying) = options.concurrency)
           => ~ENABLED (\E id \in Ids : StartItem(id))

\* N items sleep their delay while another item of the batch waits
C10_Witness ==
    /\ phase = "running"
    /\ Cardinality(Delaying) = options.concurrency
    /\ Queued # {}

(***************************************************************************)
(* C11: when withRetry returns, after k failures of its action with k less *)
(* than the maximum attempts, it has invoked the action k + 1 times, has   *)
(* slept k times with the delays base * 1, ..., base * k in that order,    *)
(* and returns the value of the last invocation.                           *)
(***************************************************************************)
C11_RetryReturnsAfterKFailures ==
    retry.pc = "returned" =>
        /\ retry.fails < retry.attempts
        /\ retry.calls = retry.fails + 1
        /\ retry.result = retry.calls
        /\ Len(retry.sleeps) = retry.fails
        /\ \A j \in 1..Len(retry.sleeps) : retry.sleeps[j] = retry.base * j

\* the scenario of the spec: two failures, success on the third of three attempts
C11_Witness ==
    retry.pc = "returned" /\ retry.attempts = 3 /\ retry.fails = 2

(***************************************************************************)
(* C12: when withRetry throws, its action has failed on every one of the n *)
(* attempts: n invocations, n - 1 sleeps (none after the last failure),    *)
(* and the error thrown is the one of the last attempt.                    *)
(***************************************************************************)
C12_RetryThrowsLastError ==
    retry.pc = "thrown" =>
        /\ retry.calls = retry.attempts
        /\ retry.fails = retry.attempts
        /\ Len(retry.sleeps) = retry.attempts - 1
        /\ retry.lastError = retry.attempts

\* every one of several attempts failed
C12_Witness ==
    retry.pc = "thrown" /\ retry.attempts >= 2

(***************************************************************************)
(* C13: once a request for an id has answered "resource absent" (HTTP 404  *)
(* or a marker phrase in the body), the item is settled as not-found at    *)
(* once and no further request for that id is made in the run.  Not-found  *)
(* is the outcome of exactly the items whose request answered so.          *)
(***************************************************************************)
C13_AbsentIsNeverRetried ==
    [][\A id \in Ids :
         /\ outcome'[id] = "notFound" => st'[id] \in {"delay", "done"}
         /\ outcome[id] = "notFound" =>
                /\ outcome'[id] \in {"notFound", "none"}
                /\ outcome'[id] = "notFound" => fetches'[id] = fetches[id]]_vars

\* a 404 that arrived on a retry, after an earlier request of the id had failed
C13_Witness ==
    \E id \in Ids :
        /\ outcome[id] = "notFound"
        /\ attempt[id] = 1
        /\ fetches[id] = 2
        /\ st[id] = "done"

(***************************************************************************)
(* C14: a request that answered with a document is the last request of the *)
(* id in the run, whatever extraction, lookup and upsert do: the item is   *)
(* settled at once as scraped or, when one of those steps threw, as error, *)
(* its row is written at most once, and an item settled as error is never  *)
(* fetched again.  An error with attempts still unused is a failure after  *)
(* the fetch, since a failing fetch uses every attempt first.              *)
(***************************************************************************)
C14_OnlyFetchIsRetried ==
    [][\A id \in Ids :
         /\ outcome'[id] \in {"scraped", "error"} => st'[id] \in {"delay", "done"}
         /\ outcome[id] \in {"scraped", "error"} =>
                /\ outcome'[id] \in {outcome[id], "none"}
                /\ outcome'[id] = outcome[id] =>
                       /\ fetches'[id] = fetches[id]
                       /\ attempt'[id] = attempt[id]
                       /\ signals'[id] = signals[id]
         /\ (st[id] = "fetching" /\ st'[id] = "backoff") =>
                /\ outcome'[id] = "none"
                /\ signals'[id] = signals[id]]_vars

\* extraction or upsert threw on the first request, two attempts left unused
C14_Witness ==
    \E id \in Ids :
        /\ outcome[id] = "error"
        /\ attempt[id] = 0
        /\ fetches[id] = 1
        /\ st[id] = "done"

(***************************************************************************)
(* C15: a failure in the pipeline of one item never aborts the batch or    *)
(* the run: no step takes a running process to a fatal exit, every item    *)
(* settled as error has been logged, and a run that ends has settled every *)
(* planned id.                                                             *)
(***************************************************************************)
C15_ItemFailureNeverAborts ==
    [][/\ phase = "running" => ~(phase' = "exited" /\ exitCode' = 1)
       /\ \A id \in Ids :
            outcome'[id] = "error" =>
                \E i \in 1..Len(errorLog') : errorLog'[i].signalId = id
       /\ phase' = "done" => \A id \in Planned' : Settled(id)']_vars

(***************************************************************************)
(* C16: every error-log entry records, next to the id, the phase in which  *)
(* the failure occurred: fetch, extract or persist.                        *)
(***************************************************************************)
C16_LogEntryRecordsPhase ==
    \A i \in 1..Len(errorLog) :
        /\ errorLog[i].signalId \in Ids
        /\ errorLog[i].type \in {"fetch", "extract", "persist"}

(***************************************************************************)
(* C17: when an interrupt ends the process, the items in flight have       *)
(* finished: no item is still in its fetch or backoff, with its record and *)
(* progress writes unmade, at the step that closes the database.           *)
(***************************************************************************)
C17_InFlightFinishBeforeClose ==
    [][(phase = "running" /\ phase' = "exited" /\ exitCode' = 0) =>
           \A id \in Ids : st[id] \notin {"fetching", "backoff"}]_vars

(***************************************************************************)
(* C18: when the process died after the upsert of id X and before the      *)
(* progress update of X, the row of X is there ever after; a later run     *)
(* plans X at most once, never when it skips existing ids, and settles it  *)
(* as skipped without a single fetch; and no step removes a stored row.    *)
(***************************************************************************)
C18_CrashAfterUpsertLosesNothing ==
    [][/\ crashedAt' # 0 =>
            /\ signals'[crashedAt'] # NoRow
            /\ fetches'[crashedAt'] = 0
            /\ Cardinality({i \in 1..Len(idsToScrape') :
                                idsToScrape'[i] = crashedAt'}) <= 1
            /\ options'.skipExisting => crashedAt' \notin Planned'
            /\ outcome'[crashedAt'] \in {"none", "skipped"}
       /\ \A id \in Ids : signals[id] # NoRow => signals'[id] # NoRow]_vars

\* the resumed run has ended: it planned X, skipped it, and the row of another
\* id stored before the crash is still there
C18_Witness ==
    /\ crashedAt # 0
    /\ phase = "done"
    /\ options.resume
    /\ crashedAt \in Planned
    /\ outcome[crashedAt] = "skipped"
    /\ \E id \in Ids \ {crashedAt} :
           planSignals[id] # NoRow /\ signals[id] # NoRow

(***************************************************************************)
(* C19: an upsert for an id that is already stored never replaces a stored *)
(* non-null field by null: a field that is null in the new record and      *)
(* non-null in the stored row keeps its stored value.                      *)
(***************************************************************************)
C19_UpsertNeverNullsStoredField ==
    ups.count >= 1 =>
        \A old \in RowsOf(ups.before, ups.rec.id), new \in RowsOf(ups.table, ups.rec.id) :
            /\ (ups.rec.description = Null /\ old.description # Null) =>
                   new.description = old.description
            /\ (ups.rec.rawHtml = Null /\ old.rawHtml # Null) =>
                   new.rawHtml = old.rawHtml

(***************************************************************************)
(* C19, as the statement does it: an upsert for a stored id gives every    *)
(* content column the value of the new record, null included; only         *)
(* raw_html keeps its stored value when the new record has none; the id    *)
(* and created_at stay, and the rows of the other ids are untouched.       *)
(***************************************************************************)
C19_UpsertKeepsOnlyRawHtml ==
    ups.count >= 1 =>
        /\ \A old \in RowsOf(ups.before, ups.rec.id), new \in RowsOf(ups.table, ups.rec.id) :
               /\ new.description = ups.rec.description
               /\ new.hasDocuments = BoolToInt(ups.rec.hasDocuments)
               /\ new.rawHtml = IF ups.rec.rawHtml # Null
                                THEN ups.rec.rawHtml ELSE old.rawHtml
               /\ new.createdAt = old.createdAt
        /\ \A row \in ups.before : row.id # ups.rec.id => row \in ups.table

\* a stored row with a description and a raw document meets a record with neither
C19_Witness ==
    /\ ups.count >= 2
    /\ ups.rec.description = Null
    /\ ups.rec.rawHtml = Null
    /\ \E old \in RowsOf(ups.before, ups.rec.id) :
           old.description # Null /\ old.rawHtml # Null
    /\ \E new \in RowsOf(ups.table, ups.rec.id) :
           new.description = Null /\ new.rawHtml # Null

(***************************************************************************)
(* C20: after any sequence of upserts the table holds at most one row per  *)
(* id and exactly one for the id just upserted; and upserting the same     *)
(* record a second time leaves that row with the field values it had after *)
(* the first upsert (the fields of a record; the write stamp updated_at is *)
(* not one of them).                                                       *)
(***************************************************************************)
C20_UpsertIdempotentOneRowPerId ==
    /\ \A id \in RowIds : Cardinality(RowsOf(ups.table, id)) <= 1
    /\ ups.count >= 1 => Cardinality(RowsOf(ups.table, ups.rec.id)) = 1
    /\ (ups.count >= 2 /\ ups.rec = ups.prevRec) =>
           /\ Cardinality(RowsOf(ups.before, ups.rec.id)) = 1
           /\ \A old \in RowsOf(ups.before, ups.rec.id),
                 new \in RowsOf(ups.table, ups.rec.id) :
                  /\ new.id = old.id
                  /\ new.description = old.description
                  /\ new.hasDocuments = old.hasDocuments
                  /\ new.rawHtml = old.rawHtml
                  /\ new.createdAt = old.createdAt

\* the same record upserted twice, at two different times, next to another row
C20_Witness ==
    /\ ups.count >= 2
    /\ ups.rec = ups.prevRec
    /\ ups.rec.description # Null
    /\ Cardinality(ups.table) = 2
    /\ \E old \in RowsOf(ups.before, ups.rec.id),
          new \in RowsOf(ups.table, ups.rec.id) : new.updatedAt > old.updatedAt

(***************************************************************************)
(* C21: the step that settles an id as not-found (HTTP 404, a marker       *)
(* phrase in the body, or the parser returning null) adds one to the       *)
(* not-found counter, leaves the watermark at or above the id, writes no   *)
(* row, appends nothing to the error log and counts no error.              *)
(***************************************************************************)
C21_NotFoundIsCountedNotLogged ==
    [][\A id \in Ids :
         (outcome[id] = "none" /\ outcome'[id] = "notFound") =>
             /\ stats'.notFound = stats.notFound + 1
             /\ stats'.errors = stats.errors
             /\ stats'.scraped = stats.scraped
             /\ progress'.lastScrapedId >= id
             /\ progress'.totalErrors = progress.totalErrors
             /\ progress'.totalScraped = progress.totalScraped
             /\ signals' = signals
             /\ errorLog' = errorLog]_vars

\* a run that ended with an id settled as not-found and nothing stored or logged
C21_Witness ==
    /\ phase = "done"
    /\ \E id \in Ids :
          /\ outcome[id] = "notFound"
          /\ signals[id] = NoRow
          /\ progress.lastScrapedId >= id
    /\ stats.notFound >= 1
    /\ stats.errors = 0
    /\ errorLog = <<>>

C23_ConnectFailureAbortsCleanly ==
    [][(phase \in {"idle", "exited"} /\ phase' = "exited" /\ runs' = runs + 1) =>
           /\ exitCode' # 0
           /\ \A id \in Ids : fetches'[id] = 0 /\ outcome'[id] = "none"
           /\ idsToScrape' = <<>>
           /\ signals' = signals
           /\ progress' = progress
           /\ errorLog' = errorLog]_vars

\* the connection test failed on a database that an earlier run had filled
C23_Witness ==
    /\ phase = "exited"
    /\ exitCode = 1
    /\ runs = 2
    /\ \E id \in Ids : signals[id] # NoRow
    /\ progress.totalScraped >= 1
    /\ progress.totalErrors = 0

(***************************************************************************)
(* C24: with --fetch-extras, whatever the two history requests and the     *)
(* storing of their rows do, the item ends as scraped: while fetchExtras   *)
(* runs the row of the id stays stored and the item is not yet settled,    *)
(* and the step that ends fetchExtras counts the item as scraped, makes    *)
(* its one progress update as a success and logs no error.                 *)
(***************************************************************************)
C24_ExtrasNeverChangeOutcome ==
    [][\A id \in Ids :
         st[id] \in {"history", "answers"} =>
             /\ signals[id] # NoRow
             /\ signals'[id] = signals[id]
             /\ outcome[id] = "none"
             /\ st'[id] \in {"history", "answers", "delay"}
             /\ st'[id] = "delay" =>
                    /\ outcome'[id] = "scraped"
                    /\ stats'.scraped = stats.scraped + 1
                    /\ stats'.errors = stats.errors
                    /\ progress' = UpdateProgress(progress, id, 1, 0)
                    /\ updates'[id] = updates[id] + 1
                    /\ errorLog' = errorLog
             /\ st'[id] # "delay" =>
                    /\ outcome'[id] = "none"
                    /\ updates'[id] = updates[id]]_vars

\* a run has ended; storing the status history of one id threw and the history
\* requests of another id went well: both are scraped, nothing is logged
C24_Witness ==
    /\ phase = "done"
    /\ errorLog = <<>>
    /\ \E id, other \in Ids :
          /\ extras[id].failed /\ ~extras[id].history /\ ~extras[id].answers
          /\ outcome[id] = "scraped" /\ signals[id] # NoRow /\ updates[id] = 1
          /\ ~extras[other].failed /\ extras[other].history /\ extras[other].answers
          /\ outcome[other] = "scraped"
    /\ stats.scraped = 2
    /\ stats.errors = 0

(***************************************************************************)
(* C25: lookupCategoryIds returns, and what it returns is this: the        *)
(* subcategory id is null when no subcategory has exactly the given name,  *)
(* else the id of a subcategory with that name; the category id is the id  *)
(* of a category with exactly the given name when there is one, else the   *)
(* stored parent id of the resolved subcategory, else null.                *)
(***************************************************************************)
C25_LookupByExactName ==
    lookup.pc = "returned" =>
        LET cats == {r \in lookup.categories : r.name = lookup.catName}
            subs == {r \in lookup.subcategories : r.name = lookup.subName}
        IN  /\ subs = {} => lookup.subcategoryId = NullId
            /\ subs # {} => \E r \in subs : lookup.subcategoryId = r.id
            /\ cats # {} => \E r \in cats : lookup.categoryId = r.id
            /\ (cats = {} /\ subs # {}) =>
                   \E r \in subs : /\ lookup.subcategoryId = r.id
                                   /\ lookup.categoryId = r.parent
            /\ (cats = {} /\ subs = {}) => lookup.categoryId = NullId

\* the category name has no match, the subcategory name has: the category id is
\* the parent stored with the subcategory, and it differs from the subcategory id
C25_Witness ==
    /\ lookup.pc = "returned"
    /\ lookup.catName # NoName
    /\ lookup.categories # {}
    /\ \A r \in lookup.categories : r.name # lookup.catName
    /\ \E r \in lookup.subcategories :
          /\ r.name = lookup.subName
          /\ lookup.subcategoryId = r.id
          /\ lookup.categoryId = r.parent
          /\ r.parent # r.id

(***************************************************************************)
(* C26: the parent category id derived from a subcategory id is a known    *)
(* parent id that the subcategory id starts with, and it is the parent the *)
(* id encodes, as documented: 30271 gives 3, 280068 gives 28, 270034 gives *)
(* 27.                                                                     *)
(***************************************************************************)
C26_ParentIsEncodedPrefix ==
    parent.pc = "returned" =>
        /\ \E k \in 1..Len(KnownParentIds) : parent.result = KnownParentIds[k]
        /\ StartsWith(Digits(parent.id), Digits(parent.result))
        /\ parent.id = 30271 => parent.result = 3
        /\ parent.id = 280068 => parent.result = 28
        /\ parent.id = 270034 => parent.result = 27

(***************************************************************************)
(* C27: a value that extractRowValue returns comes from the value region   *)
(* next to a genuine label element with the label text: never from a row   *)
(* that has the label text only outside a label element.                   *)
(***************************************************************************)
C27_ValueOnlyFromGenuineLabel ==
    (extract.pc = "returned" /\ extract.result # NoValue) =>
        extract.doc[extract.result.row].label

(***************************************************************************)
(* C28: extractRowValue never returns a value longer than 1000 characters, *)
(* on any of the paths by which it returns one.                            *)
(***************************************************************************)
C28_ValueAtMostThousandChars ==
    (extract.pc = "returned" /\ extract.result # NoValue) =>
        extract.result.len <= 1000

C30_CoordinatesInBox ==
    (coords.pc = "done" /\ coords.pair # NoPair) => InBox(coords.pair)

(***************************************************************************)
(* C30 amended: a pair taken from script content is inside the plausible   *)
(* box and is taken only when the location field gave no usable pair; a    *)
(* pair from the location field is the two parsed tokens, with no check of *)
(* their range.                                                            *)
(***************************************************************************)
C30_ScriptPairInBox ==
    /\ coords.source = "script" =>
          /\ InBox(coords.pair)
          /\ coords.pair = PairOf(coords.scriptContent)
          /\ ~CoordMatch(coords.locationText)
                \/ ~Truthy(ParseFloat(coords.locationText[1]))
                \/ ~Truthy(ParseFloat(coords.locationText[2]))
    /\ coords.source = "location" =>
          /\ CoordMatch(coords.locationText)
          /\ coords.pair = PairOf(coords.locationText)

C30_Witness ==
    /\ coords.pc = "done"
    /\ coords.source = "script"
    /\ CoordMatch(coords.locationText)
    /\ coords.pair = PairOf(<<SofiaLat, SofiaLng>>)

(***************************************************************************)
(* C31: parse returns null exactly when the body text holds one of the two *)
(* not-found phrases; otherwise it returns a record with the given id in   *)
(* which every field the document does not give is null.                   *)
(***************************************************************************)
C31_ParseNullOnlyOnMarker ==
    parsed.pc = "returned" =>
        LET doc == parsed.doc
            sig == parsed.result
        IN  /\ (sig = ParseNull) <=> (doc.marker1 \/ doc.marker2)
            /\ sig # ParseNull =>
                  /\ sig.id = parsed.signalId
                  /\ ~doc.regNum => sig.registrationNumber = Null
                  /\ ~doc.date => sig.registrationDate = Null /\ sig.statusDate = Null
                  /\ ~doc.district => sig.district = Null
                  /\ ~doc.scriptCategoryId => sig.categoryId = Null
                  /\ (doc.ogDescription \in {Null, EmptyString} /\ ~doc.panelDescription)
                        => sig.description = Null
                  /\ (~doc.statusIndicator /\ ~doc.statusName /\ ~doc.statusClass)
                        => sig.status = Null

C34_RowOnlyFromSuccessfulPipeline ==
    [][\A id \in Ids :
          /\ outcome'[id] = "scraped" => signals'[id] # NoRow
          /\ signals'[id] # signals[id] =>
                /\ st[id] = "fetching"
                /\ fetches[id] >= 1
                /\ outcome[id] = "none"
                /\ outcome'[id] = "scraped"
          /\ (outcome[id] = "none" /\ outcome'[id] \in {"notFound", "error", "skipped"})
                => signals'[id] = signals[id]]_vars

C34_Witness ==
    /\ phase = "running"
    /\ \E i, j, k \in Ids :
          /\ outcome[i] = "scraped" /\ signals[i] # NoRow
          /\ outcome[j] = "notFound" /\ signals[j] = NoRow
          /\ outcome[k] = "error" /\ signals[k] = NoRow

C36_StoredIdsAreResolved ==
    resolve.pc = "stored" =>
        /\ resolve.stored \in ResolverResults(resolve.categories, resolve.subcategories,
                                              resolve.catName, resolve.subName)
        /\ resolve.stored.categoryId \in CatIds \cup {NullId}
        /\ resolve.stored.subcategoryId \in CatIds \cup {NullId}
        /\ (/\ \A r \in resolve.categories : r.name # resolve.catName
            /\ \A r \in resolve.subcategories : r.name # resolve.subName)
              => resolve.stored = NoIds

C36_Witness ==
    /\ resolve.pc = "stored"
    /\ resolve.scraped = [categoryId |-> MaxCatId + 1, subcategoryId |-> MaxCatId + 1]
    /\ resolve.catName # NoName
    /\ resolve.subName # NoName
    /\ resolve.categories # {}
    /\ resolve.stored = NoIds

(***************************************************************************)
(* C37: insertStatusHistory and insertClerkAnswers with a non-empty list   *)
(* leave, as the rows of that signal, exactly the entries of the list (so  *)
(* a second call with the same list leaves the same entries), and touch no *)
(* row of another signal or of the other table; with an empty list, or     *)
(* when the fetch degraded to an empty list, every stored row stays.       *)
(* Rows are compared without their AUTOINCREMENT id.                       *)
(***************************************************************************)
C37_NonEmptyListReplacesRows ==
    LET op == hist.last.op
        sig == hist.last.signalId
        entries == hist.last.entries
        Table(h, o) == IF o = "history" THEN h.history ELSE h.answers
        Other(o) == IF o = "history" THEN "answers" ELSE "history"
    IN  /\ op \in {"history", "answers"} =>
              /\ Table(hist, Other(op)) = Table(hist.before, Other(op))
              /\ entries # <<>> =>
                    /\ EntriesOf(Table(hist, op), sig) = entries
                    /\ \A other \in HistSignals \ {sig} :
                          EntriesOf(Table(hist, op), other)
                              = EntriesOf(Table(hist.before, op), other)
              /\ entries = <<>> => Table(hist, op) = Table(hist.before, op)
              /\ (hist.prev = hist.last /\ entries # <<>>) =>
                    \A s \in HistSignals :
                        EntriesOf(Table(hist, op), s)
                            = EntriesOf(Table(hist.before, op), s)
        /\ op = "degraded" =>
              /\ hist.history = hist.before.history
              /\ hist.answers = hist.before.answers

C37_Witness ==
    /\ hist.calls = MaxHistCalls
    /\ hist.last.op = "history"
    /\ hist.prev = hist.last
    /\ Len(hist.last.entries) = MaxEntries
    /\ Len(EntriesOf(hist.before.history, hist.last.signalId)) = MaxEntries
    /\ Len(hist.history.rows) = MaxEntries
    /\ hist.history.nextId = 3 * MaxEntries + 1

(***************************************************************************)
(* C38: an upsert for an already stored id leaves the stored raw document  *)
(* as it was when the new record carries none, and stores the new record's *)
(* raw document when it carries one.                                       *)
(***************************************************************************)
C38_RawHtmlKeptOrReplaced ==
    ups.count >= 1 =>
        \A old \in RowsOf(ups.before, ups.rec.id), new \in RowsOf(ups.table, ups.rec.id) :
            /\ ups.rec.rawHtml = Null => new.rawHtml = old.rawHtml
            /\ ups.rec.rawHtml # Null => new.rawHtml = ups.rec.rawHtml

\* a stored raw document is replaced by another one, after it had been kept
C38_Witness ==
    /\ ups.count = MaxUpserts
    /\ ups.prevRec.id = ups.rec.id
    /\ ups.prevRec.rawHtml = Null
    /\ ups.rec.rawHtml = "g"
    /\ \E old \in RowsOf(ups.before, ups.rec.id) : old.rawHtml = "h"
    /\ \E new \in RowsOf(ups.table, ups.rec.id) : new.rawHtml = "g"

=============================================================================
